---------------------------- MODULE Spec2Model ----------------------------
(***************************************************************************)
(* A model of the gnet engine: the reactor topology and its lifecycle     *)
(* (engine.go), the three polling entry functions (reactor_epoll_default  *)
(* .go) and the cross-thread handle operations AsyncWrite / Trigger with  *)
(* the 64-bit ConnId they decode.                                          *)
(*                                                                         *)
(* One step of the model is one critical section, one handler or closure  *)
(* run by a polling thread, or one statement of the stop routine.  The    *)
(* poller, the connection object, the load balancer and engine.shutdown   *)
(* are not part of the source files at hand; they are modelled from the   *)
(* specification's description of them.                                    *)
(***************************************************************************)
EXTENDS Integers, Sequences, FiniteSets, TLC

(***************************************************************************)
(* Bounds of the model.                                                    *)
(***************************************************************************)
\* number of worker event loops (numEventLoop)
NumEventLoop == 2
\* file descriptors the kernel hands out for accepted sockets: 1..MaxFd
MaxFd == 2
\* accepts over the engine's lifetime
MaxAccepts == 2
\* AsyncWrite / Trigger calls over the engine's lifetime
MaxCalls == 2
\* signalShutdown calls issued by user threads
MaxSignals == 1
\* events caused from outside the engine over its lifetime: connections
\* arriving, pollers failing, calls by user code
MaxEnvEvents == 3

(***************************************************************************)
(* Program constants.                                                      *)
(***************************************************************************)
\* 0xffff + 1: the field width of the loop index and the generation id
Word == 65536
\* top bit of a 16-bit word: the sign of an int64 sits in the top word
SignBit == 32768
\* idx of the main loop
MainIdx == -1

Workers == 0 .. (NumEventLoop - 1)
Loops == Workers \cup {MainIdx}
\* the id the model gives the thread of user code outside the loops
UserThread == MainIdx - 1
\* no thread: OnOpen has not run for a Conn
NoThread == UserThread - 1
\* a nil *eventloop
NilLoop == NoThread - 1
\* networks a listener can be bound on
Networks == {"tcp", "udp"}
\* the listener sets the engine is configured with, keyed by listener fd
ListenerSets == {<<"tcp">>, <<"tcp", "udp">>}
FDs == 1 .. MaxFd
NoConn == [cid |-> 0, id |-> 0, opened |-> FALSE, out |-> <<>>]

(***************************************************************************)
(* 64-bit integers.  TLC's integers are 32 bits wide, so an int64 is kept *)
(* as its two's complement bit pattern in four 16-bit words, most         *)
(* significant first.                                                      *)
(***************************************************************************)
RECURSIVE BitAnd(_, _, _)
BitAnd(a, b, n) ==
  IF n = 0 \/ a = 0 \/ b = 0 THEN 0
  ELSE 2 * BitAnd(a \div 2, b \div 2, n - 1) + (IF a % 2 = 1 /\ b % 2 = 1 THEN 1 ELSE 0)

RECURSIVE BitOr(_, _, _)
BitOr(a, b, n) ==
  IF n = 0 \/ (a = 0 /\ b = 0) THEN 0
  ELSE 2 * BitOr(a \div 2, b \div 2, n - 1) + (IF a % 2 = 1 \/ b % 2 = 1 THEN 1 ELSE 0)

\* int64(v) of a non-negative int v < 2^31
I64(v) == <<0, 0, (v \div Word) % Word, v % Word>>

\* x << (16 * k)
Shl(x, k) == [i \in 1..4 |-> IF i + k <= 4 THEN x[i + k] ELSE 0]

\* x >> (16 * k) of a signed int64: the sign is shifted in
Sar(x, k) == [i \in 1..4 |-> IF i - k >= 1 THEN x[i - k]
                             ELSE IF x[1] >= SignBit THEN Word - 1 ELSE 0]

And64(x, y) == [i \in 1..4 |-> BitAnd(x[i], y[i], 16)]
Or64(x, y) == [i \in 1..4 |-> BitOr(x[i], y[i], 16)]

Mask16 == <<0, 0, 0, Word - 1>>
Mask32 == <<0, 0, Word - 1, Word - 1>>

\* int(x) on a 64-bit platform, for the values that fit TLC's integers
ToInt(x) ==
  CASE x[1] = 0 /\ x[2] = 0 /\ x[3] < SignBit -> x[3] * Word + x[4]
    [] x[1] = Word - 1 /\ x[2] = Word - 1 /\ x[3] >= SignBit ->
         (x[3] - Word) * Word + x[4]

\* uint16(x): the low 16 bits
ToUint16(x) == x[4]

(***************************************************************************)
(* ConnId.                                                                 *)
(***************************************************************************)
\* (loopIdx << 48) | (id << 32) | uint32(fd)
EncodeConnId(loopIdx, id, fd) ==
  Or64(Or64(Shl(I64(loopIdx), 3), Shl(I64(id), 2)), And64(I64(fd), Mask32))

\* elidx := int(connId >> 48 & 0xffff), without the mask
DecodeLoopIdxNoMask(connId) == ToInt(Sar(connId, 3))

\* elidx := int(connId >> 48 & 0xffff)
DecodeLoopIdx(connId) == ToInt(And64(Sar(connId, 3), Mask16))

\* id := uint16(connId >> 32 & 0xffff)
DecodeId(connId) == ToUint16(And64(Sar(connId, 2), Mask16))

\* fd := int(connId & 0xffffffff)
DecodeFd(connId) == ToInt(And64(connId, Mask32))

(***************************************************************************)
(* State.                                                                  *)
(***************************************************************************)
VARIABLES
  opts,             \* eng.opts: the ReusePort and Ticker options
  listeners,        \* the network of each configured listener
  onBootCalls,      \* calls of eventHandler.OnBoot so far
  bootAction,       \* what OnBoot returned
  lbSize,           \* event loops registered with the load balancer
  tickerSpawned,    \* start has spawned the ticker goroutine
  striker,          \* the loop the ticker goroutine was spawned on
  idx,              \* el.idx of every loop
  mode,             \* topology chosen by start: "reactor" or "reuseport"
  runPc,            \* position of run and of the stop routine it defers
  stopIdx,          \* stop's position in lb.iterate
  once,             \* eng.once has run its function
  inShutdown,       \* eng.inShutdown
  wg,               \* eng.wg counter
  onShutdownCalls,  \* calls of eventHandler.OnShutdown so far
  userSignals,      \* signalShutdown calls made by user threads so far
  listenersOpen,    \* the engine's listeners are open
  loopPc,           \* each loop's polling thread
  loopErr,          \* what Polling returned to each loop
  pollerOpen,       \* each loop's poller
  urgentQ,          \* each poller's urgent trigger queue
  highQ,            \* each poller's high-priority trigger queue
  connections,      \* each worker loop's connections map, keyed by fd
  nextId,           \* each worker loop's generation counter
  conns,            \* every Conn object created so far, in creation order
  calls,            \* AsyncWrite / Trigger calls so far
  lastCall,         \* the AsyncWrite / Trigger call the last step made, if any
  lastExec,         \* the AsyncWrite / Trigger closure the last step ran, if any
  lastAccept,       \* the accept handler the last step ran, if any
  lastExit,         \* the loop exit the last step made, if any
  lastReady,        \* the readiness event the last step dispatched, if any
  codec,            \* ConnId values under test
  envEvents         \* events the environment has caused so far

\* what run and start set up and nothing changes afterwards
bootVars == <<opts, listeners, onBootCalls, bootAction, lbSize, tickerSpawned,
             striker, idx>>

vars == <<bootVars, mode, runPc, stopIdx, once, inShutdown, wg, onShutdownCalls,
          userSignals, listenersOpen, loopPc, loopErr, pollerOpen, urgentQ,
          highQ, connections, nextId, conns, calls, lastCall, lastExec,
          lastAccept, lastExit, lastReady, codec, envEvents>>

engineVars == <<bootVars, mode, runPc, stopIdx, once, inShutdown, wg,
                onShutdownCalls, userSignals, listenersOpen, loopPc, loopErr,
                pollerOpen, urgentQ, highQ, connections, nextId, conns, calls,
                lastCall, lastExec, lastAccept, lastExit, lastReady, envEvents>>

NoCall == [kind |-> "none", engNil |-> FALSE, cbNil |-> FALSE, ret |-> "none",
           h |-> 0, terr |-> "none"]
NoExec == [kind |-> "none", loop |-> MainIdx, thread |-> MainIdx,
           hit |-> FALSE, stale |-> FALSE, reused |-> FALSE]
NoAccept == [kind |-> "none", loop |-> MainIdx, errno |-> "none",
             reg |-> "none", cid |-> 0]
NoExit == [kind |-> "none", loop |-> MainIdx, err |-> "none", arg |-> "none"]
NoReady == [kind |-> "none", loop |-> MainIdx, fd |-> 0, op |-> "none"]
NoCodec == [phase |-> "idle"]

Task(kind, cid, fd, id, n, h, t) ==
  [kind |-> kind, cid |-> cid, fd |-> fd, id |-> id, n |-> n, h |-> h, t |-> t]
\* a closure that returns nil
NilTask == Task("cb", 0, 0, 0, 0, 0, MainIdx)
\* stop's closure: func(_ interface{}) error { return errors.ErrEngineShutdown }
ShutdownTask == Task("shutdown", 0, 0, 0, 0, 0, MainIdx)

EmptyMap == [fd \in FDs |-> NoConn]

Init ==
  /\ opts \in [ReusePort : BOOLEAN, Ticker : BOOLEAN]
  /\ listeners \in ListenerSets
  /\ onBootCalls = 0
  /\ bootAction = "none"
  /\ lbSize = 0
  /\ tickerSpawned = FALSE
  /\ striker = NilLoop
  /\ mode = "none"
  /\ runPc = "boot"
  /\ stopIdx = 0
  /\ once = FALSE
  /\ inShutdown = 0
  /\ wg = 0
  /\ onShutdownCalls = 0
  /\ userSignals = 0
  /\ listenersOpen = TRUE
  /\ loopPc = [l \in Loops |-> "idle"]
  /\ loopErr = [l \in Loops |-> "none"]
  /\ pollerOpen = [l \in Loops |-> FALSE]
  /\ urgentQ = [l \in Loops |-> <<>>]
  /\ highQ = [l \in Loops |-> <<>>]
  /\ connections = [l \in Loops |-> EmptyMap]
  /\ nextId = [l \in Loops |-> 0]
  /\ conns = <<>>
  /\ calls = 0
  /\ lastCall = NoCall
  /\ lastExec = NoExec
  /\ lastAccept = NoAccept
  /\ lastExit = NoExit
  /\ lastReady = NoReady
  /\ idx = [l \in Loops |-> 0]
  /\ codec = NoCodec
  /\ envEvents = 0

(***************************************************************************)
(* Helpers over the state.                                                 *)
(***************************************************************************)
\* the loops the engine runs in the chosen topology
Started == IF mode = "reactor" THEN Loops ELSE Workers

\* the loops eng.lb.iterate visits, with the index it passes for each
LbLoops == 0 .. (lbSize - 1)

\* fds of accepted sockets the process holds open
OpenFds ==
  {conns[c].fd : c \in {x \in DOMAIN conns : conns[x].st \in {"pending", "open", "leaked"}}}

\* the descriptor accept returns: the lowest-numbered one not open
FreeFd(nfd) == nfd \notin OpenFds /\ \A f \in FDs : f < nfd => f \in OpenFds

\* the ConnId of Conn object c
ConnIdOf(c) == EncodeConnId(idx[conns[c].loop], conns[c].id, conns[c].fd)

\* the Conn objects whose ConnId user code has seen (OnOpen ran)
Published == {c \in DOMAIN conns : conns[c].st \in {"open", "closed"}}

SetSt(c, st) == [conns EXCEPT ![c].st = st]

\* one more event caused by the environment
EnvEvent == envEvents < MaxEnvEvents /\ envEvents' = envEvents + 1

\* a step that is no AsyncWrite / Trigger call and runs none of their closures
NoEvents ==
  /\ lastCall' = NoCall /\ lastExec' = NoExec
  /\ lastAccept' = NoAccept /\ lastExit' = NoExit /\ lastReady' = NoReady

\* cond.L is held by the stop routine between Lock and Wait
MutexFree == runPc # "locked"
(***************************************************************************)
(* The poller's trigger channel.                                           *)
(***************************************************************************)
\* poller.UrgentTrigger(fn, arg): enqueue on the urgent queue
UrgentTrigger(l, task) == urgentQ' = [urgentQ EXCEPT ![l] = Append(@, task)]

\* poller.Trigger(HighPriority, fn, arg): enqueue on the high-priority queue
Trigger(l, task) == highQ' = [highQ EXCEPT ![l] = Append(@, task)]

\* the errors poller.Trigger can return: waking a poller that has been closed
\* may fail
TriggerErrs(l) == IF pollerOpen[l] THEN {"nil"} ELSE {"nil", "SyscallError"}

\* the closure polling runs next: urgent closures before high-priority ones
NextTask(l) == IF urgentQ[l] # <<>> THEN Head(urgentQ[l]) ELSE Head(highQ[l])

PopTask(l) ==
  IF urgentQ[l] # <<>>
  THEN urgentQ' = [urgentQ EXCEPT ![l] = Tail(@)] /\ UNCHANGED highQ
  ELSE highQ' = [highQ EXCEPT ![l] = Tail(@)] /\ UNCHANGED urgentQ

(***************************************************************************)
(* Shutdown signalling.                                                    *)
(***************************************************************************)
\* a thread can get through signalShutdown: the once-gate is shut, or cond.L
\* can be taken
CanSignal == once \/ MutexFree

\* signalShutdown: once.Do(Lock; cond.Signal; Unlock).  Signal wakes a
\* goroutine that is waiting on the condition, and is forgotten when none is
SignalShutdown ==
  /\ once' = TRUE
  /\ runPc' = IF ~once /\ runPc = "waiting" THEN "woken" ELSE runPc

\* a user thread calls signalShutdown on a started engine
UserSignalShutdown ==
  /\ EnvEvent
  /\ runPc # "boot"
  /\ userSignals < MaxSignals
  /\ CanSignal
  /\ SignalShutdown
  /\ userSignals' = userSignals + 1
  /\ NoEvents
  /\ UNCHANGED <<bootVars, mode, stopIdx, inShutdown, wg, onShutdownCalls,
                 listenersOpen, loopPc, loopErr, pollerOpen, urgentQ, highQ,
                 connections, nextId, conns, calls, codec>>

(***************************************************************************)
(* run and start.                                                          *)
(***************************************************************************)
\* run goes on to start whatever OnBoot returns
OnBootProceedsAlways(action) == TRUE

\* switch eng.eventHandler.OnBoot(e): None goes on, Shutdown returns nil
OnBootProceeds(action) == action = "None"

\* run up to the switch on OnBoot's result
RunOnBoot(action) ==
  /\ runPc = "boot"
  /\ onBootCalls' = onBootCalls + 1
  /\ bootAction' = action
  /\ runPc' = IF OnBootProceeds(action) THEN "start" ELSE "returned"
  /\ NoEvents
  /\ UNCHANGED <<opts, listeners, lbSize, tickerSpawned, striker, idx, mode,
                 stopIdx, once, inShutdown, wg, onShutdownCalls, userSignals,
                 listenersOpen, loopPc, loopErr, pollerOpen, urgentQ, highQ,
                 connections, nextId, conns, calls, codec, envEvents>>

\* engine.start: the topology follows from ReusePort and from the network of
\* the listener that the range over the eng.listeners map yields first
StartMode(first) ==
  IF opts.ReusePort \/ listeners[first] = "udp" THEN "reuseport" ELSE "reactor"

\* no OpenPoller call of start fails
NoFailure == NumEventLoop + 1

\* the loops whose polling thread start has launched when it returns:
\* activateReactors launches the sub-reactors before it opens the main
\* loop's poller, activateEventLoops launches the loops after all are set up
Launched(m, failAt) ==
  IF failAt = NoFailure THEN (IF m = "reactor" THEN Loops ELSE Workers)
  ELSE IF m = "reactor" /\ failAt = NumEventLoop THEN Workers
  ELSE {}

\* register numbering the loops from 1
RegisterIdxOneBased(n) == n

\* lb.register(el) appends el to the balancer's list, which then holds n
\* loops, and assigns el.idx = len(loops) - 1
RegisterIdx(n) == n - 1

\* the idx of every loop when start returns: that of a registered worker is
\* assigned by register, that of the main loop is set to -1 when it is
\* created, and a loop that was never created keeps the zero value
StartIdx(m, failAt) ==
  [l \in Loops |->
     IF l = MainIdx
     THEN (IF m = "reactor" /\ failAt = NoFailure THEN MainIdx ELSE 0)
     ELSE IF l < failAt THEN RegisterIdx(l + 1) ELSE 0]

\* the loop activateEventLoops makes the striker: the one with el.idx == 0
StrikerLoop ==
  IF \E l \in Workers : RegisterIdx(l + 1) = 0
  THEN CHOOSE l \in Workers : RegisterIdx(l + 1) = 0
  ELSE NilLoop

\* the ticker goroutine start spawns: activateReactors spawns it on the main
\* loop if opts.Ticker; activateEventLoops spawns it on striker, which is
\* loop 0 if opts.Ticker and nil otherwise
TickerSpawn(m, failAt) ==
  IF failAt # NoFailure THEN [spawned |-> FALSE, loop |-> NilLoop]
  ELSE IF m = "reactor"
       THEN [spawned |-> opts.Ticker,
             loop |-> IF opts.Ticker THEN MainIdx ELSE NilLoop]
       ELSE [spawned |-> TRUE,
             loop |-> IF opts.Ticker THEN StrikerLoop ELSE NilLoop]

\* engine.start: open a poller per loop, register the workers with the load
\* balancer and launch the polling threads (wg.Add(1) before each).  The
\* OpenPoller call for worker failAt, or for the main loop if failAt is
\* NumEventLoop, fails and start returns its error
Start(first, failAt) ==
  /\ runPc = "start"
  /\ StartMode(first) = "reuseport" => failAt # NumEventLoop
  /\ mode' = StartMode(first)
  /\ runPc' = IF failAt = NoFailure THEN "started" ELSE "startFailed"
  /\ lbSize' = IF failAt < NumEventLoop THEN failAt ELSE NumEventLoop
  /\ pollerOpen' = [l \in Loops |->
        IF l = MainIdx THEN failAt = NoFailure /\ StartMode(first) = "reactor"
        ELSE l < failAt]
  /\ loopPc' = [l \in Loops |->
        IF l \in Launched(StartMode(first), failAt) THEN "polling" ELSE "idle"]
  /\ wg' = Cardinality(Launched(StartMode(first), failAt))
  /\ tickerSpawned' = TickerSpawn(StartMode(first), failAt).spawned
  /\ striker' = TickerSpawn(StartMode(first), failAt).loop
  /\ idx' = StartIdx(StartMode(first), failAt)
  /\ NoEvents
  /\ UNCHANGED <<opts, listeners, onBootCalls, bootAction, stopIdx, once, inShutdown,
                 onShutdownCalls, userSignals, listenersOpen, loopErr, urgentQ,
                 highQ, connections, nextId, conns, calls, codec, envEvents>>

\* run when start has failed: eng.closeEventLoops() closes the poller of
\* every registered loop, then run returns the error
RunStartFailed ==
  /\ runPc = "startFailed"
  /\ runPc' = "returned"
  /\ pollerOpen' = [l \in Loops |-> IF l \in 0 .. (lbSize - 1) THEN FALSE
                                    ELSE pollerOpen[l]]
  /\ NoEvents
  /\ UNCHANGED <<bootVars, mode, stopIdx, once, inShutdown, wg,
                 onShutdownCalls, userSignals, listenersOpen, loopPc, loopErr,
                 urgentQ, highQ, connections, nextId, conns, calls, codec,
                 envEvents>>

(***************************************************************************)
(* stop.                                                                   *)
(***************************************************************************)
\* waitForShutdown: eng.cond.L.Lock()
StopLock ==
  /\ runPc = "started"
  /\ runPc' = "locked"
  /\ NoEvents
  /\ UNCHANGED <<bootVars, mode, stopIdx, once, inShutdown, wg, onShutdownCalls,
                 userSignals, listenersOpen, loopPc, loopErr, pollerOpen,
                 urgentQ, highQ, connections, nextId, conns, calls, codec, envEvents>>

\* waitForShutdown: eng.cond.Wait() puts the caller on the wait list and
\* unlocks cond.L
StopWait ==
  /\ runPc = "locked"
  /\ runPc' = "waiting"
  /\ NoEvents
  /\ UNCHANGED <<bootVars, mode, stopIdx, once, inShutdown, wg, onShutdownCalls,
                 userSignals, listenersOpen, loopPc, loopErr, pollerOpen,
                 urgentQ, highQ, connections, nextId, conns, calls, codec, envEvents>>

\* waitForShutdown returns: Wait relocks cond.L, then Unlock
StopWaitReturn ==
  /\ runPc = "woken"
  /\ runPc' = "callback"
  /\ NoEvents
  /\ UNCHANGED <<bootVars, mode, stopIdx, once, inShutdown, wg, onShutdownCalls,
                 userSignals, listenersOpen, loopPc, loopErr, pollerOpen,
                 urgentQ, highQ, connections, nextId, conns, calls, codec, envEvents>>

\* eng.eventHandler.OnShutdown(s)
StopOnShutdown ==
  /\ runPc = "callback"
  /\ runPc' = "trigger"
  /\ onShutdownCalls' = onShutdownCalls + 1
  /\ stopIdx' = 0
  /\ NoEvents
  /\ UNCHANGED <<bootVars, mode, once, inShutdown, wg, userSignals, listenersOpen,
                 loopPc, loopErr, pollerOpen, urgentQ, highQ, connections,
                 nextId, conns, calls, codec, envEvents>>

\* one turn of eng.lb.iterate: UrgentTrigger(ErrEngineShutdown) on a worker
StopTriggerLoop ==
  /\ runPc = "trigger"
  /\ stopIdx < NumEventLoop
  /\ UrgentTrigger(stopIdx, ShutdownTask)
  /\ stopIdx' = stopIdx + 1
  /\ runPc' = IF stopIdx + 1 = NumEventLoop THEN "main" ELSE "trigger"
  /\ NoEvents
  /\ UNCHANGED <<bootVars, mode, once, inShutdown, wg, onShutdownCalls, userSignals,
                 listenersOpen, loopPc, loopErr, pollerOpen, highQ,
                 connections, nextId, conns, calls, codec, envEvents>>

\* listeners that stay open when stop goes on to the main loop's trigger
ListenersLeftOpen == TRUE

\* eng.mainLoop.closeAllListeners(): no listener is open afterwards
AfterCloseAllListeners == FALSE

\* if eng.mainLoop != nil: closeAllListeners
StopMainLoop ==
  /\ runPc = "main"
  /\ IF mode = "reactor"
     THEN listenersOpen' = AfterCloseAllListeners /\ runPc' = "mainTrigger"
     ELSE UNCHANGED listenersOpen /\ runPc' = "join"
  /\ NoEvents
  /\ UNCHANGED <<bootVars, mode, stopIdx, once, inShutdown, wg, onShutdownCalls,
                 userSignals, loopPc, loopErr, pollerOpen, urgentQ, highQ,
                 connections, nextId, conns, calls, codec, envEvents>>

\* eng.mainLoop.poller.UrgentTrigger(ErrEngineShutdown)
StopTriggerMain ==
  /\ runPc = "mainTrigger"
  /\ runPc' = "join"
  /\ UrgentTrigger(MainIdx, ShutdownTask)
  /\ NoEvents
  /\ UNCHANGED <<bootVars, mode, stopIdx, once, inShutdown, wg, onShutdownCalls,
                 userSignals, listenersOpen, loopPc, loopErr, pollerOpen, highQ,
                 connections, nextId, conns, calls, codec, envEvents>>

\* a join that does not wait for the polling threads
JoinSkipped == TRUE

\* eng.wg.Wait() lets stop through once every polling thread has returned
JoinPassed == wg = 0

\* eng.wg.Wait()
StopJoin ==
  /\ runPc = "join"
  /\ JoinPassed
  /\ runPc' = "close"
  /\ NoEvents
  /\ UNCHANGED <<bootVars, mode, stopIdx, once, inShutdown, wg, onShutdownCalls,
                 userSignals, listenersOpen, loopPc, loopErr, pollerOpen,
                 urgentQ, highQ, connections, nextId, conns, calls, codec, envEvents>>

\* eng.closeEventLoops(), then the main loop's poller.Close()
StopClosePollers ==
  /\ runPc = "close"
  /\ runPc' = "flag"
  /\ pollerOpen' = [l \in Loops |-> FALSE]
  /\ NoEvents
  /\ UNCHANGED <<bootVars, mode, stopIdx, once, inShutdown, wg, onShutdownCalls,
                 userSignals, listenersOpen, loopPc, loopErr, urgentQ, highQ,
                 connections, nextId, conns, calls, codec, envEvents>>

\* atomic.StoreInt32(&eng.inShutdown, 1)
StopSetFlag ==
  /\ runPc = "flag"
  /\ runPc' = "done"
  /\ inShutdown' = 1
  /\ NoEvents
  /\ UNCHANGED <<bootVars, mode, stopIdx, once, wg, onShutdownCalls, userSignals,
                 listenersOpen, loopPc, loopErr, pollerOpen, urgentQ, highQ,
                 connections, nextId, conns, calls, codec, envEvents>>
(***************************************************************************)
(* Accepting and registering connections.                                  *)
(***************************************************************************)
NewConn(l, fd, st) ==
  [loop |-> l, id |-> nextId[l], fd |-> fd, st |-> st,
   by |-> IF st = "open" THEN l ELSE NoThread]

\* a registered Conn: in the map, opened
Registered(cid, id) == [cid |-> cid, id |-> id, opened |-> TRUE, out |-> <<>>]

\* a Conn handed to every worker loop instead of the one chosen
AcceptTargetsAll(el) == Workers

\* a Conn the main loop keeps for itself
AcceptTargetsMain(el) == {MainIdx}

\* the loops a newly accepted Conn is sent to: el := svr.lb.next(remoteAddr)
\* picks one loop
AcceptTargets(el) == {el}

\* what a handler's error makes Polling do when every error ends it
AfterHandlerStrict(err) == IF err = "nil" THEN "polling" ELSE "unwound"

\* what the value a readiness handler returns makes Polling do: an error of
\* the accept path is logged and Polling goes on
AfterHandler(err) == "polling"

\* the handler of loop l has returned err to Polling
HandlerReturns(l, err) ==
  /\ loopPc' = [loopPc EXCEPT ![l] = AfterHandler(err)]
  /\ loopErr' = [loopErr EXCEPT ![l] =
                   IF AfterHandler(err) = "unwound" THEN err ELSE @]

\* el.connections.getConn(fd)
GetConn(l, fd) == IF fd \in FDs THEN connections[l][fd] ELSE NoConn

\* the fds of the listeners in el.listeners; every loop's listeners are
\* numbered alike
ListenerFds == {MaxFd + i : i \in DOMAIN listeners}

\* the handler of run, taken for orbit as well
ReadyTargetRun(l, fd) ==
  IF GetConn(l, fd).cid # 0 THEN "processIO"
  ELSE IF fd \in ListenerFds THEN "accept"
  ELSE "Delete"

\* where the readiness handler of worker loop l sends a ready fd.  run
\* (reuseport mode): c.processIO if the fd has a Conn, else el.accept if it
\* is a listener, else el.poller.Delete(fd).  orbit (reactor mode):
\* c.processIO if the fd has a Conn, else el.poller.Delete(fd)
ReadyTarget(l, fd) ==
  IF GetConn(l, fd).cid # 0 THEN "processIO"
  ELSE IF mode = "reuseport" /\ fd \in ListenerFds THEN "accept"
  ELSE "Delete"

\* the loop whose thread accepts on the listeners: the main loop, whose
\* handler is the accept function, or a worker whose handler sends a
\* listener's fd to el.accept
Accepts(l) ==
  /\ loopPc[l] = "polling"
  /\ \/ mode = "reactor" /\ l = MainIdx /\ listenersOpen
     \/ l \in Workers /\ \E fd \in ListenerFds : ReadyTarget(l, fd) = "accept"

\* a ready fd that the handler of worker loop l does not send to el.accept:
\* c.processIO(fd, ev, flags) on its Conn, or el.poller.Delete(fd)
Ready(l, fd) ==
  /\ EnvEvent
  /\ l \in Workers
  /\ loopPc[l] = "polling"
  /\ ReadyTarget(l, fd) # "accept"
  /\ HandlerReturns(l, "nil")
  /\ lastReady' = [kind |-> "ready", loop |-> l, fd |-> fd,
                   op |-> ReadyTarget(l, fd)]
  /\ lastCall' = NoCall /\ lastExec' = NoExec
  /\ lastAccept' = NoAccept /\ lastExit' = NoExit
  /\ UNCHANGED <<bootVars, mode, runPc, stopIdx, once, inShutdown, wg,
                 onShutdownCalls, userSignals, listenersOpen, pollerOpen,
                 urgentQ, highQ, connections, nextId, conns, calls, codec>>

\* the error the accept handler of loop l returns for errno
AcceptErr(l, errno) ==
  IF errno = "EAGAIN" THEN "nil"
  ELSE IF l = MainIdx THEN "ErrAcceptSocket" ELSE "SyscallError"

\* unix.Accept fails in the accept handler of loop l: on EAGAIN return nil,
\* else log and return an error
AcceptFails(l, errno) ==
  /\ EnvEvent
  /\ Accepts(l)
  /\ HandlerReturns(l, AcceptErr(l, errno))
  /\ lastAccept' = [kind |-> "accept", loop |-> l, errno |-> errno,
                    reg |-> "none", cid |-> 0]
  /\ lastCall' = NoCall /\ lastExec' = NoExec /\ lastExit' = NoExit /\ lastReady' = NoReady
  /\ UNCHANGED <<bootVars, mode, runPc, stopIdx, once, inShutdown, wg,
                 onShutdownCalls, userSignals, listenersOpen, pollerOpen,
                 urgentQ, highQ, connections, nextId, conns, calls, codec>>

\* server.accept on the main loop's thread (reactor mode): accept, pick a
\* sub-loop, newTCPConn, UrgentTrigger(el.register, c); if that fails close
\* nfd and release c; return nil
MainAccept(el, nfd, ok) ==
  /\ EnvEvent
  /\ Accepts(MainIdx)
  /\ el \in LbLoops
  /\ Len(conns) < MaxAccepts
  /\ FreeFd(nfd)
  /\ nextId' = [nextId EXCEPT ![el] = (@ + 1) % Word]
  /\ IF ok
     THEN /\ conns' = Append(conns, NewConn(el, nfd, "pending"))
          /\ urgentQ' = [l \in Loops |->
                IF l \in AcceptTargets(el)
                THEN Append(urgentQ[l],
                            Task("register", Len(conns) + 1, nfd, nextId[el], 0, 0, MainIdx))
                ELSE urgentQ[l]]
     ELSE /\ conns' = Append(conns, NewConn(el, nfd, "released"))
          /\ UNCHANGED urgentQ
  /\ HandlerReturns(MainIdx, "nil")
  /\ lastAccept' = [kind |-> "accept", loop |-> MainIdx, errno |-> "none",
                    reg |-> IF ok THEN "ok" ELSE "failed", cid |-> Len(conns) + 1]
  /\ lastCall' = NoCall /\ lastExec' = NoExec /\ lastExit' = NoExit /\ lastReady' = NoReady
  /\ UNCHANGED <<bootVars, mode, runPc, stopIdx, once, inShutdown, wg,
                 onShutdownCalls, userSignals, listenersOpen, pollerOpen,
                 highQ, connections, calls, codec>>

\* eventloop.accept on the loop's own thread (reuseport mode), on a listener
\* that is not UDP: accept, newTCPConn, AddRead; if that fails return its
\* error, else el.connections[c.fd] = c and el.open(c)
LoopAccept(l, nfd, ok) ==
  /\ EnvEvent
  /\ Accepts(l)
  /\ l \in Workers
  /\ \E i \in DOMAIN listeners : listeners[i] # "udp"
  /\ Len(conns) < MaxAccepts
  /\ FreeFd(nfd)
  /\ nextId' = [nextId EXCEPT ![l] = (@ + 1) % Word]
  /\ IF ok
     THEN /\ conns' = Append(conns, NewConn(l, nfd, "open"))
          /\ connections' = [connections EXCEPT
                               ![l][nfd] = Registered(Len(conns) + 1, nextId[l])]
          /\ HandlerReturns(l, "nil")
     ELSE /\ conns' = Append(conns, NewConn(l, nfd, "leaked"))
          /\ UNCHANGED connections
          /\ HandlerReturns(l, "SyscallError")
  /\ lastAccept' = [kind |-> "accept", loop |-> l, errno |-> "none",
                    reg |-> IF ok THEN "ok" ELSE "failed", cid |-> Len(conns) + 1]
  /\ lastCall' = NoCall /\ lastExec' = NoExec /\ lastExit' = NoExit /\ lastReady' = NoReady
  /\ UNCHANGED <<bootVars, mode, runPc, stopIdx, once, inShutdown, wg,
                 onShutdownCalls, userSignals, listenersOpen, pollerOpen,
                 urgentQ, highQ, calls, codec>>

\* el.register(c), the closure server.accept sends, run by the polling thread
\* of loop l: insert c into the map, AddRead, el.open(c)
ExecRegister(l) ==
  /\ loopPc[l] = "polling"
  /\ urgentQ[l] # <<>>
  /\ Head(urgentQ[l]).kind = "register"
  /\ LET t == Head(urgentQ[l]) IN
       /\ connections' = [connections EXCEPT ![l][t.fd] = Registered(t.cid, t.id)]
       /\ conns' = [conns EXCEPT ![t.cid].st = "open", ![t.cid].by = l]
  /\ urgentQ' = [urgentQ EXCEPT ![l] = Tail(@)]
  /\ NoEvents
  /\ UNCHANGED <<bootVars, mode, runPc, stopIdx, once, inShutdown, wg, onShutdownCalls,
                 userSignals, listenersOpen, loopPc, loopErr, pollerOpen,
                 highQ, nextId, calls, codec, envEvents>>

\* a connection is closed by its loop (peer hang-up, error, or a Close
\* action): OnClose, delete from the map, poller.Delete, close the fd
CloseConn(l, fd) ==
  /\ l \in Workers
  /\ loopPc[l] = "polling"
  /\ connections[l][fd].cid # 0
  /\ conns' = SetSt(connections[l][fd].cid, "closed")
  /\ connections' = [connections EXCEPT ![l][fd] = NoConn]
  /\ NoEvents
  /\ UNCHANGED <<bootVars, mode, runPc, stopIdx, once, inShutdown, wg, onShutdownCalls,
                 userSignals, listenersOpen, loopPc, loopErr, pollerOpen,
                 urgentQ, highQ, nextId, calls, codec, envEvents>>

(***************************************************************************)
(* Leaving the polling loop.                                               *)
(***************************************************************************)
\* the closure stop sends returns ErrEngineShutdown and Polling unwinds
ExecShutdown(l) ==
  /\ loopPc[l] = "polling"
  /\ urgentQ[l] # <<>>
  /\ Head(urgentQ[l]).kind = "shutdown"
  /\ urgentQ' = [urgentQ EXCEPT ![l] = Tail(@)]
  /\ loopPc' = [loopPc EXCEPT ![l] = "unwound"]
  /\ loopErr' = [loopErr EXCEPT ![l] = "ErrEngineShutdown"]
  /\ NoEvents
  /\ UNCHANGED <<bootVars, mode, runPc, stopIdx, once, inShutdown, wg, onShutdownCalls,
                 userSignals, listenersOpen, pollerOpen, highQ, connections,
                 nextId, conns, calls, codec, envEvents>>

\* Polling returns on its own: a handler returned the Shutdown action
\* (ErrEngineShutdown) or the poller failed (any other error)
PollingFails(l, err) ==
  /\ EnvEvent
  /\ loopPc[l] = "polling"
  /\ loopPc' = [loopPc EXCEPT ![l] = "unwound"]
  /\ loopErr' = [loopErr EXCEPT ![l] = err]
  /\ NoEvents
  /\ UNCHANGED <<bootVars, mode, runPc, stopIdx, once, inShutdown, wg, onShutdownCalls,
                 userSignals, listenersOpen, pollerOpen, urgentQ, highQ,
                 connections, nextId, conns, calls, codec>>

\* the error reaches engine.shutdown as Polling returned it
ShutdownArgRaw(err) == err

\* the error rotate, orbit and run pass to engine.shutdown: nil if Polling
\* returned ErrEngineShutdown, else what Polling returned
ShutdownArg(err) == IF err = "ErrEngineShutdown" THEN "nil" ELSE err

\* the rest of rotate, orbit and run once Polling has returned: el.closeConns()
\* (orbit and run only) closes every connection of the loop,
\* el.engine.shutdown(err) logs and calls signalShutdown, and the goroutine
\* calls eng.wg.Done()
LoopExit(l) ==
  /\ loopPc[l] = "unwound"
  /\ CanSignal
  /\ SignalShutdown
  /\ loopPc' = [loopPc EXCEPT ![l] = "exited"]
  /\ loopErr' = [loopErr EXCEPT ![l] = "none"]
  /\ lastExit' = [kind |-> "exit", loop |-> l, err |-> loopErr[l],
                  arg |-> ShutdownArg(loopErr[l])]
  /\ lastCall' = NoCall /\ lastExec' = NoExec /\ lastAccept' = NoAccept
  /\ lastReady' = NoReady
  /\ wg' = wg - 1
  /\ IF l \in Workers
     THEN /\ connections' = [connections EXCEPT ![l] = EmptyMap]
          /\ conns' = [c \in DOMAIN conns |->
                         IF conns[c].st = "open" /\ conns[c].loop = l
                         THEN [conns[c] EXCEPT !.st = "closed"] ELSE conns[c]]
     ELSE UNCHANGED <<connections, conns>>
  /\ UNCHANGED <<bootVars, mode, stopIdx, inShutdown, onShutdownCalls, userSignals,
                 listenersOpen, pollerOpen, urgentQ, highQ, nextId, calls,
                 codec, envEvents>>

(***************************************************************************)
(* AsyncWrite and Trigger.                                                 *)
(***************************************************************************)
\* a ConnId no loop of the engine matches: loop index 0xffff
MalformedConnId == EncodeConnId(Word - 1, 0, 1)

\* the ConnId a caller passes: that of Conn object h, or a malformed one
CallerConnId(h) == IF h = 0 THEN MalformedConnId ELSE ConnIdOf(h)

\* the closure's test without the generation id
ClosureHitNoId(c, task) == c.cid # 0 /\ c.opened

\* the closure's test: c != nil && c.id == id, and c.opened
ClosureHit(c, task) == c.cid # 0 /\ c.id = task.id /\ c.opened

\* the closure AsyncWrite / Trigger enqueue, run by `thread` on loop l:
\* c.write(data) or cb(c) on the Conn it finds, or nothing
RunClosure(l, task, thread) ==
  LET c == GetConn(l, task.fd)
      hit == ClosureHit(c, task)
  IN /\ connections' =
          IF hit /\ task.kind = "write"
          THEN [connections EXCEPT ![l][task.fd].out =
                   Append(@, [n |-> task.n, t |-> task.t, h |-> task.h])]
          ELSE connections
     /\ lastExec' = [kind |-> task.kind, loop |-> l, thread |-> thread,
                     hit |-> hit,
                     stale |-> task.h # 0 /\ conns[task.h].st = "closed",
                     reused |-> c.cid # 0 /\ c.cid # task.h]

\* the call runs the closure itself when the caller is the owning loop
DispatchInline(t, elidx, task) ==
  IF elidx \in LbLoops /\ t = elidx
  THEN RunClosure(elidx, task, t) /\ UNCHANGED <<urgentQ, highQ>>
  ELSE /\ IF elidx \in LbLoops THEN Trigger(elidx, task) ELSE UNCHANGED highQ
       /\ UNCHANGED <<urgentQ, connections>>
       /\ lastExec' = NoExec

\* the call raises the priority of a closure sent to a loop with a backlog
DispatchEscalating(t, elidx, task) ==
  /\ IF elidx \in LbLoops /\ highQ[elidx] # <<>>
     THEN UrgentTrigger(elidx, task) /\ UNCHANGED highQ
     ELSE /\ IF elidx \in LbLoops THEN Trigger(elidx, task) ELSE UNCHANGED highQ
          /\ UNCHANGED urgentQ
  /\ UNCHANGED connections
  /\ lastExec' = NoExec

\* the call takes the loop index modulo the number of loops
DispatchWrapped(t, elidx, task) ==
  /\ IF lbSize > 0 THEN Trigger(elidx % lbSize, task) ELSE UNCHANGED highQ
  /\ UNCHANGED <<urgentQ, connections>>
  /\ lastExec' = NoExec

\* the call runs the closure itself when the loop's poller is closed
DispatchDirect(t, elidx, task) ==
  IF elidx \in LbLoops /\ ~pollerOpen[elidx]
  THEN RunClosure(elidx, task, t) /\ UNCHANGED <<urgentQ, highQ>>
  ELSE /\ IF elidx \in LbLoops THEN Trigger(elidx, task) ELSE UNCHANGED highQ
       /\ UNCHANGED <<urgentQ, connections>>
       /\ lastExec' = NoExec

\* eventLoops.iterate: on the loop whose index is elidx,
\* poller.Trigger(queue.HighPriority, closure, nil), its error dropped
Dispatch(t, elidx, task) ==
  /\ IF elidx \in LbLoops THEN Trigger(elidx, task) ELSE UNCHANGED highQ
  /\ UNCHANGED <<urgentQ, connections>>
  /\ lastExec' = NoExec

\* the errors of the poller.Trigger call that AsyncWrite / Trigger make and
\* drop; none if they return before it or no loop has index elidx
DroppedErrs(skip, elidx) ==
  IF skip \/ elidx \notin LbLoops THEN {"none"} ELSE TriggerErrs(elidx)

\* AsyncWrite's result when every call returns nil
AsyncWriteRetNil(engNil) == "nil"

\* AsyncWrite's result: ErrEmptyEngine if e.eng == nil, else nil
AsyncWriteRet(engNil) == IF engNil THEN "ErrEmptyEngine" ELSE "nil"

\* threads that can call the handle: user threads, and a worker loop's thread
\* from inside one of its handlers
Callers == {UserThread} \cup {l \in Workers : loopPc[l] = "polling"}

\* the calls the model makes: the user thread passes any ConnId; a worker's
\* thread passes the ConnId of a connection of its own loop (a call from a
\* handler to another loop's connection is that of a foreign thread)
CanCall(t, h) ==
  /\ t \in Callers
  /\ t # UserThread => h # 0 /\ conns[h].loop = t

\* Engine.AsyncWrite(connId, data) called by thread t
AsyncWrite(t, h, engNil) ==
  /\ EnvEvent
  /\ calls < MaxCalls
  /\ CanCall(t, h)
  /\ calls' = calls + 1
  /\ lastAccept' = NoAccept /\ lastExit' = NoExit /\ lastReady' = NoReady
  /\ LET connId == CallerConnId(h)
         elidx == DecodeLoopIdx(connId)
         id == DecodeId(connId)
         fd == DecodeFd(connId)
     IN /\ IF AsyncWriteRet(engNil) = "nil"
           THEN Dispatch(t, elidx, Task("write", 0, fd, id, calls + 1, h, t))
           ELSE UNCHANGED <<urgentQ, highQ, connections>> /\ lastExec' = NoExec
        /\ \E terr \in DroppedErrs(AsyncWriteRet(engNil) # "nil", elidx) :
             lastCall' = [kind |-> "AsyncWrite", engNil |-> engNil,
                          cbNil |-> FALSE, ret |-> AsyncWriteRet(engNil),
                          h |-> h, terr |-> terr]
  /\ UNCHANGED <<bootVars, mode, runPc, stopIdx, once, inShutdown, wg, onShutdownCalls,
                 userSignals, listenersOpen, loopPc, loopErr, pollerOpen,
                 nextId, conns, codec>>

\* Engine.Trigger(connId, cb) called by thread t
EngineTrigger(t, h, engNil, cbNil) ==
  /\ EnvEvent
  /\ calls < MaxCalls
  /\ CanCall(t, h)
  /\ calls' = calls + 1
  /\ lastAccept' = NoAccept /\ lastExit' = NoExit /\ lastReady' = NoReady
  /\ LET connId == CallerConnId(h)
         elidx == DecodeLoopIdx(connId)
         id == DecodeId(connId)
         fd == DecodeFd(connId)
     IN /\ IF engNil \/ cbNil
           THEN UNCHANGED <<urgentQ, highQ, connections>> /\ lastExec' = NoExec
           ELSE Dispatch(t, elidx, Task("cb", 0, fd, id, calls + 1, h, t))
        /\ \E terr \in DroppedErrs(engNil \/ cbNil, elidx) :
             lastCall' = [kind |-> "Trigger", engNil |-> engNil,
                          cbNil |-> cbNil, ret |-> "none", h |-> h,
                          terr |-> terr]
  /\ UNCHANGED <<bootVars, mode, runPc, stopIdx, once, inShutdown, wg, onShutdownCalls,
                 userSignals, listenersOpen, loopPc, loopErr, pollerOpen,
                 nextId, conns, codec>>

\* the polling thread of loop l runs the next AsyncWrite / Trigger closure
ExecClosure(l) ==
  /\ l \in Workers
  /\ loopPc[l] = "polling"
  /\ urgentQ[l] # <<>> \/ highQ[l] # <<>>
  /\ NextTask(l).kind \in {"write", "cb"}
  /\ PopTask(l)
  /\ lastAccept' = NoAccept /\ lastExit' = NoExit /\ lastReady' = NoReady
  /\ RunClosure(l, NextTask(l), l)
  /\ UNCHANGED <<bootVars, mode, runPc, stopIdx, once, inShutdown, wg, onShutdownCalls,
                 userSignals, listenersOpen, loopPc, loopErr, pollerOpen,
                 nextId, conns, calls, codec, envEvents>>
  /\ lastCall' = NoCall

(***************************************************************************)
(* The engine.                                                             *)
(***************************************************************************)
Next ==
  \/ \E action \in {"None", "Shutdown"} : RunOnBoot(action)
  \/ \E first \in DOMAIN listeners, failAt \in 0 .. NoFailure : Start(first, failAt)
  \/ RunStartFailed
  \/ StopLock
  \/ StopWait
  \/ StopWaitReturn
  \/ StopOnShutdown
  \/ StopTriggerLoop
  \/ StopMainLoop
  \/ StopTriggerMain
  \/ StopJoin
  \/ StopClosePollers
  \/ StopSetFlag
  \/ UserSignalShutdown
  \/ \E l \in Loops, errno \in {"EAGAIN", "EMFILE"} : AcceptFails(l, errno)
  \/ \E el \in Workers, nfd \in FDs, ok \in BOOLEAN : MainAccept(el, nfd, ok)
  \/ \E l \in Workers, nfd \in FDs, ok \in BOOLEAN : LoopAccept(l, nfd, ok)
  \/ \E l \in Workers, fd \in FDs \cup ListenerFds : Ready(l, fd)
  \/ \E l \in Loops : ExecRegister(l)
  \/ \E l \in Workers, fd \in FDs : CloseConn(l, fd)
  \/ \E l \in Loops : ExecShutdown(l)
  \/ \E l \in Loops, err \in {"ErrEngineShutdown", "fatal"} : PollingFails(l, err)
  \/ \E l \in Loops : LoopExit(l)
  \/ \E t \in Callers, h \in Published \cup {0}, engNil \in BOOLEAN :
       AsyncWrite(t, h, engNil)
  \/ \E t \in Callers, h \in Published \cup {0}, engNil \in BOOLEAN, cbNil \in BOOLEAN :
       EngineTrigger(t, h, engNil, cbNil)
  \/ \E l \in Workers : ExecClosure(l)

Spec == Init /\ [][Next]_vars
\* the engine under the scheduling the runtime gives it: the stop routine and
\* every polling thread keep running; nothing is assumed of the environment
Fairness ==
  /\ WF_vars(StopLock) /\ WF_vars(StopWait) /\ WF_vars(StopWaitReturn)
  /\ WF_vars(StopOnShutdown) /\ WF_vars(StopTriggerLoop)
  /\ WF_vars(StopMainLoop) /\ WF_vars(StopTriggerMain) /\ WF_vars(StopJoin)
  /\ WF_vars(StopClosePollers) /\ WF_vars(StopSetFlag)
  /\ \A l \in Loops :
       /\ WF_vars(ExecRegister(l)) /\ WF_vars(ExecShutdown(l))
       /\ WF_vars(ExecClosure(l)) /\ WF_vars(LoopExit(l))

FairSpec == Init /\ [][Next]_vars /\ Fairness

(***************************************************************************)
(* ConnId values on their own: encode two triples, decode the first.       *)
(***************************************************************************)
\* 16-bit fields around the sign bit of the int64's top word
CodecWords == {0, 1, SignBit - 1, SignBit, Word - 1}
\* descriptors up to 2^31 - 1
CodecFds == {0, 1, Word - 1, Word, (SignBit - 1) * Word + (Word - 1)}
CodecTriples == CodecWords \X CodecWords \X CodecFds

CodecInit ==
  Init /\ opts = [ReusePort |-> FALSE, Ticker |-> FALSE] /\ listeners = <<"tcp">>

CodecEncode ==
  /\ codec.phase = "idle"
  /\ \E a \in CodecTriples, b \in CodecTriples :
       codec' = [phase |-> "encoded", a |-> a, b |-> b,
                 ca |-> EncodeConnId(a[1], a[2], a[3]),
                 cb |-> EncodeConnId(b[1], b[2], b[3]),
                 dec |-> <<>>]
  /\ UNCHANGED engineVars

CodecDecode ==
  /\ codec.phase = "encoded"
  /\ codec' = [codec EXCEPT !.phase = "decoded",
                            !.dec = <<DecodeLoopIdx(codec.ca), DecodeId(codec.ca),
                                      DecodeFd(codec.ca)>>]
  /\ UNCHANGED engineVars

CodecNext == CodecEncode \/ CodecDecode

CodecSpec == CodecInit /\ [][CodecNext]_vars
(***************************************************************************)
(* Properties.                                                             *)
(***************************************************************************)

\* C1: for a started engine on which signalShutdown has been called at least
\* once, OnShutdown is invoked exactly once: never more than once, and
\* eventually once.
C1_OnShutdownExactlyOnce ==
  /\ [](onShutdownCalls <= 1)
  /\ (once ~> (onShutdownCalls = 1))

\* C2: the shutdown signal is never lost: once signalShutdown has been called
\* on a started engine, stop eventually leaves waitForShutdown, the cascade
\* runs and inShutdown becomes 1.
C2_SignalNeverLost == once ~> (inShutdown = 1)

\* the Conn objects found in the connections map of loop l
Owned(l) == {connections[l][fd].cid : fd \in FDs} \ {0}

\* the loops whose connections map holds Conn object c
Owners(c) == {l \in Loops : c \in Owned(l)}

\* C3: ConnId staleness: a closure of AsyncWrite or Trigger that carries the
\* ConnId of a connection already closed performs no write and calls no
\* callback, whatever connection now sits at that fd of the loop; and every
\* write found in a connection's buffer was sent with that connection's own
\* ConnId.
C3_StaleConnIdIsNoOp ==
  /\ lastExec.stale => ~lastExec.hit
  /\ \A l \in Workers, fd \in FDs :
       \A i \in DOMAIN connections[l][fd].out :
         connections[l][fd].out[i].h = connections[l][fd].cid

\* a closure ran with the ConnId of a closed connection whose fd a newer
\* connection of the same loop holds, and did nothing
C3_Witness ==
  /\ lastExec.kind # "none"
  /\ lastExec.stale
  /\ lastExec.reused
  /\ ~lastExec.hit

\* C4: trigger FIFO: the writes one thread sent to one connection are
\* performed in the order it called AsyncWrite.
C4_TriggerFifo ==
  \A l \in Workers, fd \in FDs :
    LET out == connections[l][fd].out IN
    \A i \in DOMAIN out, j \in DOMAIN out :
      (i < j /\ out[i].t = out[j].t) => out[i].n < out[j].n

\* two writes of the user thread were performed on one connection
C4_Witness ==
  \E l \in Workers, fd \in FDs :
    LET out == connections[l][fd].out IN
    /\ Len(out) >= 2
    /\ out[1].t = UserThread
    /\ out[2].t = UserThread

\* C5: single owner: no Conn object is in the connections maps of two loops,
\* and a registered, not yet closed one is in exactly one.
C5_SingleOwner ==
  \A c \in DOMAIN conns :
    /\ Cardinality(Owners(c)) <= 1
    /\ conns[c].st = "open" => Cardinality(Owners(c)) = 1
    /\ conns[c].st # "open" => Owners(c) = {}

\* two live connections, registered through the main loop, on two loops
C5_Witness ==
  /\ mode = "reactor"
  /\ \E c \in DOMAIN conns, d \in DOMAIN conns :
       /\ conns[c].st = "open" /\ conns[d].st = "open"
       /\ Owners(c) # Owners(d)

\* C6: thread confinement: a call of AsyncWrite or Trigger changes no
\* connections map and runs no closure, also when the caller is the owning
\* loop's own thread; a closure runs in a later step, on the thread of the
\* loop it was sent to, while that loop is polling.
C6_ThreadConfinement ==
  [][/\ calls' # calls => (connections' = connections /\ lastExec' = NoExec)
     /\ lastExec'.kind # "none" =>
          /\ lastExec'.thread = lastExec'.loop
          /\ loopPc[lastExec'.loop] = "polling"
          /\ calls' = calls]_vars

\* a loop's own thread has called, and its closure waits in the loop's queue
C6_Witness ==
  \E l \in Workers : \E i \in DOMAIN highQ[l] :
    /\ highQ[l][i].t = l
    /\ highQ[l][i].kind \in {"write", "cb"}
    /\ lastCall.kind # "none"

\* C7: inShutdown is 0 at first, never goes back from 1 to 0, and whenever it
\* is 1 every polling thread that was started has returned.
C7_InShutdownAfterJoin ==
  /\ inShutdown = 0
  /\ [][/\ inShutdown' >= inShutdown
        /\ inShutdown' = 1 =>
             \A l \in Started : loopPc'[l] = "exited"]_vars

\* stop has set inShutdown in reactor mode
C7_Witness == inShutdown = 1 /\ mode = "reactor" /\ wg = 0

\* C8: AsyncWrite on a zero-valued handle returns ErrEmptyEngine and enqueues
\* nothing, and returns nil on any other handle; Trigger on a zero-valued
\* handle or with a nil callback enqueues nothing.
C8_EmptyEngine ==
  [][calls' # calls =>
       /\ lastCall'.kind \in {"AsyncWrite", "Trigger"}
       /\ (lastCall'.kind = "AsyncWrite" /\ lastCall'.engNil) =>
            /\ lastCall'.ret = "ErrEmptyEngine"
            /\ UNCHANGED <<urgentQ, highQ>>
       /\ (lastCall'.kind = "AsyncWrite" /\ ~lastCall'.engNil) =>
            lastCall'.ret = "nil"
       /\ (lastCall'.kind = "Trigger" /\ (lastCall'.engNil \/ lastCall'.cbNil)) =>
            UNCHANGED <<urgentQ, highQ>>]_vars

\* AsyncWrite was called on a zero-valued handle while the loops were polling
C8_Witness ==
  /\ lastCall.kind = "AsyncWrite"
  /\ lastCall.engNil
  /\ lastCall.ret = "ErrEmptyEngine"
  /\ \A l \in Workers : loopPc[l] = "polling"

\* stop has finished: every polling thread has returned, the pollers are
\* closed, inShutdown is set and no connections map holds a connection
CascadeDone ==
  /\ runPc = "done"
  /\ inShutdown = 1
  /\ \A l \in Started : loopPc[l] = "exited" /\ ~pollerOpen[l]
  /\ \A l \in Workers : connections[l] = EmptyMap

\* C9: the shutdown cascade terminates: in reactor mode, once stop has been
\* woken, every worker's and the main loop's polling thread returns, stop
\* passes the join and completes, and no connection stays in any map.
C9_CascadeTerminates == (mode = "reactor" /\ runPc = "woken") ~> CascadeDone

\* the cascade has run in reactor mode on an engine that had a connection
C9_Witness ==
  /\ mode = "reactor"
  /\ CascadeDone
  /\ \E c \in DOMAIN conns : conns[c].st = "closed"

\* C10: ConnId round trip: decoding an encoded (loop index, generation id,
\* fd) gives the same triple back, and two triples with the same ConnId are
\* the same triple.
C10_ConnIdRoundTrip ==
  /\ codec.phase = "decoded" => codec.dec = codec.a
  /\ codec.phase \in {"encoded", "decoded"} =>
       (codec.ca = codec.cb => codec.a = codec.b)

\* a triple whose loop index has its top bit set (a negative int64) has been
\* encoded and decoded
C10_Witness ==
  /\ codec.phase = "decoded"
  /\ codec.a[1] >= SignBit
  /\ codec.ca[1] >= SignBit
  /\ codec.a[3] > Word
  /\ codec.a # codec.b

\* start has returned without an error
StartSucceeded == runPc \notin {"boot", "start", "startFailed", "returned"}

\* C11: topology selection: start chooses reuseport mode whenever ReusePort is
\* set or any one of the configured listeners is UDP, and no main loop exists
\* then; otherwise it chooses reactor mode, with all the workers and a main
\* loop of idx -1.
C11_TopologySelection ==
  mode # "none" =>
    /\ mode = IF opts.ReusePort \/ (\E i \in DOMAIN listeners : listeners[i] = "udp")
              THEN "reuseport" ELSE "reactor"
    /\ mode = "reuseport" => loopPc[MainIdx] = "idle" /\ ~pollerOpen[MainIdx]
    /\ (mode = "reactor" /\ StartSucceeded) =>
         loopPc[MainIdx] # "idle" /\ lbSize = NumEventLoop

\* nothing of the engine has been set up: no loop, poller, thread or ticker
Untouched ==
  /\ mode = "none" /\ lbSize = 0 /\ wg = 0 /\ ~tickerSpawned
  /\ \A l \in Loops : loopPc[l] = "idle" /\ ~pollerOpen[l]

\* C12: OnBoot is called exactly once, before any loop or polling thread is
\* created; if it returns Shutdown, run returns with no poller opened, no
\* polling thread started, no wait for shutdown and no OnShutdown call.
C12_OnBootOnceBeforeLoops ==
  /\ onBootCalls <= 1
  /\ runPc # "boot" => onBootCalls = 1
  /\ onBootCalls = 0 => Untouched
  /\ bootAction = "Shutdown" =>
       Untouched /\ runPc = "returned" /\ onShutdownCalls = 0 /\ inShutdown = 0

\* OnBoot returned Shutdown and a user thread has called signalShutdown since
C12_Witness ==
  /\ bootAction = "Shutdown"
  /\ runPc = "returned"
  /\ onBootCalls = 1
  /\ once

\* C13: the ticker goroutine is spawned only when the Ticker option is set,
\* in both topologies, on loop 0 in reuseport mode and on the main loop in
\* reactor mode; with Ticker unset none is spawned, and none on a nil loop.
C13_TickerOnlyWhenEnabled ==
  /\ tickerSpawned =>
       /\ opts.Ticker
       /\ striker # NilLoop
       /\ striker = IF mode = "reuseport" THEN 0 ELSE MainIdx
  /\ (StartSucceeded /\ opts.Ticker) => tickerSpawned

\* C14: registration failure is local: when registering a newly accepted fd
\* fails (the urgent trigger in reactor mode, AddRead in reuseport mode), the
\* fd is closed and its Conn released, it is in no connections map, and the
\* accepting loop keeps polling.
C14_RegistrationFailureLocal ==
  lastAccept.reg = "failed" =>
    /\ conns[lastAccept.cid].st = "released"
    /\ conns[lastAccept.cid].fd \notin OpenFds
    /\ Owners(lastAccept.cid) = {}
    /\ loopPc[lastAccept.loop] = "polling"

C16_PollerClosedAfterThread ==
  \A l \in Loops : loopPc[l] \in {"polling", "unwound"} => pollerOpen[l]

\* C17: a ConnId whose loop index matches no registered loop makes AsyncWrite
\* and Trigger enqueue no closure on any loop; a ConnId whose loop index is
\* that of a registered loop enqueues exactly one closure, on that loop's
\* high-priority queue, and none on any other loop.  Neither changes any
\* connection or loop.
C17_MalformedConnIdDropped ==
  [][(calls' # calls /\ ~lastCall'.engNil /\ ~lastCall'.cbNil) =>
       /\ UNCHANGED <<urgentQ, connections, conns, nextId, loopPc, pollerOpen>>
       /\ lastCall'.h = 0 => UNCHANGED highQ
       /\ lastCall'.h # 0 =>
            LET i == conns[lastCall'.h].loop IN
            /\ i \in LbLoops
            /\ Len(highQ'[i]) = Len(highQ[i]) + 1
            /\ SubSeq(highQ'[i], 1, Len(highQ[i])) = highQ[i]
            /\ highQ'[i][Len(highQ'[i])].fd = conns[lastCall'.h].fd
            /\ \A l \in Loops \ {i} : highQ'[l] = highQ[l]]_vars

\* Trigger was called with a malformed ConnId and a callback on a running
\* engine whose loops hold closures and a connection
C17_Witness ==
  /\ lastCall.kind = "Trigger"
  /\ lastCall.h = 0
  /\ ~lastCall.engNil /\ ~lastCall.cbNil
  /\ lbSize = NumEventLoop
  /\ \E l \in Workers : highQ[l] # <<>>
  /\ \E c \in DOMAIN conns : conns[c].st = "open"

\* C18: in reactor mode the main loop owns no data connection: its
\* connections map is always empty and OnOpen never runs on its thread; a
\* connection enters a map only when the polling thread of the sub-loop the
\* load balancer chose runs the registration closure at the head of that
\* loop's urgent queue.
C18_MainLoopOwnsNoConn ==
  /\ [](mode = "reactor" =>
          /\ connections[MainIdx] = EmptyMap
          /\ \A c \in DOMAIN conns : conns[c].by # MainIdx)
  /\ [][mode = "reactor" =>
          \A l \in Loops, fd \in FDs :
            LET cid == connections'[l][fd].cid IN
            (cid # 0 /\ cid # connections[l][fd].cid) =>
               /\ l \in Workers
               /\ conns[cid].loop = l
               /\ loopPc[l] = "polling"
               /\ urgentQ[l] # <<>>
               /\ Head(urgentQ[l]).kind = "register"
               /\ Head(urgentQ[l]).cid = cid
               /\ urgentQ'[l] = Tail(urgentQ[l])
               /\ conns'[cid].by = l]_vars

\* the main loop has accepted two connections and polls on; one of them is
\* registered on its sub-loop, the other's closure still waits
C18_Witness ==
  /\ mode = "reactor"
  /\ loopPc[MainIdx] = "polling"
  /\ \E c \in DOMAIN conns : conns[c].st = "open" /\ conns[c].by = conns[c].loop
  /\ \E c \in DOMAIN conns : conns[c].st = "pending"

\* stop's shutdown closure waits in the urgent queue of loop l
ShutdownSent(l) ==
  \E i \in DOMAIN urgentQ[l] : urgentQ[l][i].kind = "shutdown"

\* C19, as stated: in stop, OnShutdown is called after the shutdown condition
\* was signalled and before any shutdown trigger is sent to any loop, so that
\* every loop is still polling when OnShutdown starts; and the listeners are
\* closed before the shutdown trigger is sent to the main loop.
C19_AllLoopsPollingAtOnShutdown ==
  /\ runPc = "callback" =>
       /\ once
       /\ onShutdownCalls = 0
       /\ \A l \in Loops : ~ShutdownSent(l)
       /\ \A l \in Started : loopPc[l] = "polling"
  /\ (\E l \in Loops : ShutdownSent(l)) => onShutdownCalls = 1
  /\ ShutdownSent(MainIdx) => ~listenersOpen

\* C19, amended: in stop, OnShutdown is called after the shutdown condition
\* was signalled and before any shutdown trigger is sent to any loop, so no
\* loop has been told to stop when OnShutdown starts (a loop may have left
\* Polling by itself before: the one whose exit raised the signal); and the
\* listeners are closed before the shutdown trigger is sent to the main loop.
C19_OnShutdownBeforeTriggers ==
  /\ runPc = "callback" =>
       /\ once
       /\ onShutdownCalls = 0
       /\ \A l \in Loops : ~ShutdownSent(l)
  /\ (\E l \in Loops : ShutdownSent(l)) => onShutdownCalls = 1
  /\ ShutdownSent(MainIdx) => ~listenersOpen

\* stop is about to call OnShutdown in reactor mode after a worker's exit
\* raised the signal, the main loop still polling
C19_Witness ==
  /\ runPc = "callback"
  /\ mode = "reactor"
  /\ loopPc[MainIdx] = "polling"
  /\ \E l \in Workers : loopPc[l] = "exited"

\* C20: every exit of a polling loop calls engine.shutdown exactly once, with
\* nil when Polling returned the ErrEngineShutdown sentinel and with the
\* error Polling returned otherwise; a worker loop has closed all its
\* connections by then; the sentinel is never passed on as an error.
C20_LoopExitFunnel ==
  [][/\ \A l \in Loops :
          /\ (loopPc[l] # "exited" /\ loopPc'[l] = "exited") <=>
               (lastExit'.kind = "exit" /\ lastExit'.loop = l)
          /\ loopPc[l] = "exited" => loopPc'[l] = "exited"
     /\ lastExit'.kind = "exit" =>
          /\ loopPc[lastExit'.loop] = "unwound"
          /\ lastExit'.err = loopErr[lastExit'.loop]
          /\ lastExit'.arg = IF lastExit'.err = "ErrEngineShutdown" THEN "nil"
                             ELSE lastExit'.err
          /\ lastExit'.arg # "ErrEngineShutdown"
          /\ once'
          /\ lastExit'.loop \in Workers =>
               /\ connections'[lastExit'.loop] = EmptyMap
               /\ \A c \in DOMAIN conns' :
                    conns'[c].loop = lastExit'.loop => conns'[c].st # "open"]_vars

\* a worker loop that held a connection has left Polling on stop's sentinel
\* and has called engine.shutdown with nil
C20_Witness ==
  /\ lastExit.kind = "exit"
  /\ lastExit.loop \in Workers
  /\ lastExit.err = "ErrEngineShutdown"
  /\ lastExit.arg = "nil"
  /\ onShutdownCalls = 1
  /\ \E c \in DOMAIN conns : conns[c].loop = lastExit.loop /\ conns[c].st = "closed"

\* C21: in a worker loop a ready fd that has a Conn in the loop's map goes to
\* that Conn's processIO; in run (reuseport mode) a ready fd with no Conn that
\* is a listener goes to el.accept; a ready fd with neither is deleted from
\* the poller and the connections maps are left unchanged; orbit (reactor
\* mode) never accepts.
C21_ReadinessDispatch ==
  [][/\ lastReady'.kind = "ready" =>
          LET l == lastReady'.loop
              fd == lastReady'.fd
          IN /\ l \in Workers
             /\ loopPc[l] = "polling"
             /\ GetConn(l, fd).cid # 0 => lastReady'.op = "processIO"
             /\ GetConn(l, fd).cid = 0 =>
                  /\ lastReady'.op = "Delete"
                  /\ ~(mode = "reuseport" /\ fd \in ListenerFds)
                  /\ connections' = connections
     /\ (lastAccept'.kind = "accept" /\ lastAccept'.loop \in Workers) =>
          /\ mode = "reuseport"
          /\ \E fd \in ListenerFds : GetConn(lastAccept'.loop, fd).cid = 0
     /\ \A l \in Workers, fd \in FDs \cup ListenerFds :
          /\ (mode = "reuseport" /\ fd \in ListenerFds) =>
               ReadyTarget(l, fd) = "accept"
          /\ mode = "reactor" => ReadyTarget(l, fd) # "accept"]_vars

\* a worker loop that holds a connection has deleted a stale fd from its
\* poller
C21_Witness ==
  /\ lastReady.kind = "ready"
  /\ lastReady.op = "Delete"
  /\ connections[lastReady.loop] # EmptyMap

\* C22: worker loop indices are dense and stable: after a successful start
\* with N loops the registered workers have idx exactly 0..N-1, without
\* duplicates or gaps; no idx changes afterwards; iterate visits the loops in
\* increasing idx order, so the index the AsyncWrite / Trigger lookup compares
\* is the loop's idx; the main loop (idx -1) is not registered in the load
\* balancer and is never the target of AsyncWrite / Trigger.
C22_DenseStableIdx ==
  [][/\ runPc' \notin {"boot", "start"} =>
          /\ \A i \in 0 .. (lbSize' - 1) : idx'[i] = i
          /\ {idx'[l] : l \in 0 .. (lbSize' - 1)} = 0 .. (lbSize' - 1)
          /\ MainIdx \notin 0 .. (lbSize' - 1)
     /\ runPc' \notin {"boot", "start", "startFailed", "returned"} =>
          /\ lbSize' = NumEventLoop
          /\ mode' = "reactor" => idx'[MainIdx] = MainIdx
     /\ runPc \notin {"boot", "start"} => idx' = idx /\ lbSize' = lbSize
     /\ lastCall'.kind # "none" =>
          /\ urgentQ' = urgentQ
          /\ highQ'[MainIdx] = highQ[MainIdx]
          /\ \A l \in Workers :
               highQ'[l] # highQ[l] =>
                 /\ l \in LbLoops
                 /\ lastCall'.h # 0
                 /\ idx[l] = DecodeLoopIdx(ConnIdOf(lastCall'.h))
                 /\ l = conns[lastCall'.h].loop
     /\ lastExec'.kind # "none" => lastExec'.loop \in Workers]_vars

\* in reactor mode a call on the handle of a connection of the last worker
\* has left its closure on that worker's queue
C22_Witness ==
  /\ mode = "reactor"
  /\ runPc = "started"
  /\ lastCall.kind # "none"
  /\ lastCall.h # 0
  /\ conns[lastCall.h].loop = NumEventLoop - 1
  /\ highQ[NumEventLoop - 1] # <<>>

\* C23: in reactor mode no accepted connection is leaked across shutdown:
\* every connection the main loop has accepted is eventually registered in
\* the map of its sub-loop or has its fd closed and its Conn released, also
\* when the accept races with stop.
C23_NoLeakAcrossShutdown ==
  \A c \in 1 .. MaxAccepts :
     (mode = "reactor" /\ c \in DOMAIN conns)
       ~> (c \in DOMAIN conns /\ conns[c].st \in {"open", "closed", "released"})

\* C24: after the engine has shut down (inShutdown = 1, every polling thread
\* returned, every poller closed) AsyncWrite and Trigger on a handle still
\* held never perform c.write nor invoke the callback, never touch a
\* connections map from the calling thread, and AsyncWrite still returns nil
\* although the enqueue on the closed poller may fail.
C24_CallsAfterShutdown ==
  [][inShutdown = 1 =>
       /\ lastExec' = NoExec
       /\ connections' = connections
       /\ conns' = conns
       /\ lastCall'.kind # "none" =>
            /\ \A l \in LbLoops \cup {MainIdx} :
                 loopPc[l] # "polling" /\ ~pollerOpen[l]
            /\ urgentQ' = urgentQ
            /\ \A l \in Loops : highQ'[l] # highQ[l] =>
                 /\ lastCall'.h # 0
                 /\ l = conns[lastCall'.h].loop
                 /\ Len(highQ'[l]) = Len(highQ[l]) + 1
            /\ lastCall'.terr \in {"none", "nil", "SyscallError"}
            /\ (lastCall'.kind = "AsyncWrite" /\ ~lastCall'.engNil) =>
                 lastCall'.ret = "nil"]_vars

\* after shutdown AsyncWrite on the handle of an accepted connection has
\* returned nil although poller.Trigger failed
C24_Witness ==
  /\ inShutdown = 1
  /\ lastCall.kind = "AsyncWrite"
  /\ ~lastCall.engNil
  /\ lastCall.ret = "nil"
  /\ lastCall.h # 0
  /\ lastCall.terr = "SyscallError"

=============================================================================
